---- MODULE Spec2Model ----
(***************************************************************************)
(* ipa_server: an HTTP service (Rocket) that turns an IPA string and a     *)
(* language name into speech through AWS Polly.                            *)
(*                                                                         *)
(* Conventions of the model                                                *)
(*   - an Option<T> is a sequence of length 0 (None) or 1 (Some(x));       *)
(*   - a String that the code slices or measures is a sequence: a language *)
(*     code is a sequence of one-character strings, an IPA string is a     *)
(*     sequence of Unicode code points, an Origin header is a sequence of  *)
(*     tokens; a String that is only compared is a TLA+ string;            *)
(*   - time is in seconds since the server started.                        *)
(***************************************************************************)
EXTENDS Integers, Sequences, FiniteSets, TLC

(***************************************************************************)
(* Program constants (src/src/main.rs:23-25)                               *)
(***************************************************************************)
MAX_IPA_LENGTH == 50

MIN_IPA_LENGTH == 1

RATE_LIMIT_PER_HOUR == 100

(***************************************************************************)
(* Bounds of the model                                                     *)
(***************************************************************************)
\* Longest IPA input, in characters, that a client sends.
MaxIpaChars == 51

\* Longest voice catalog the provider returns.
MaxVoices == 2

\* Requests whose synthesis call is awaited at the same time.
MaxInflight == 2

\* Cells of one client's quota that the requests of Spec and SpecLen use up.
MaxCells == 3

\* Times the clock advances in SpecRate and SpecClients.
MaxAdvances == 2

None == <<>>

Some(x) == <<x>>

Range(s) == {s[i] : i \in DOMAIN s}

Max(a, b) == IF a >= b THEN a ELSE b

(***************************************************************************)
(* LANGUAGE_TO_CODE: Wikipedia IPA language page -> AWS LanguageCode, the  *)
(* code written as LanguageCode::as_str gives it.                          *)
(***************************************************************************)
LANGUAGE_TO_CODE ==
       ("Arabic" :> <<"a", "r", "b">>)
    @@ ("Catalan" :> <<"c", "a", "-", "E", "S">>)
    @@ ("Mandarin" :> <<"c", "m", "n", "-", "C", "N">>)
    @@ ("Welsh" :> <<"c", "y", "-", "G", "B">>)
    @@ ("Danish" :> <<"d", "a", "-", "D", "K">>)
    @@ ("Standard German" :> <<"d", "e", "-", "A", "T">>)
    @@ ("English" :> <<"e", "n", "-", "U", "S">>)
    @@ ("Spanish" :> <<"e", "s", "-", "E", "S">>)
    @@ ("French" :> <<"f", "r", "-", "C", "A">>)
    @@ ("Hindi and Urdu" :> <<"h", "i", "-", "I", "N">>)
    @@ ("Icelandic" :> <<"i", "s", "-", "I", "S">>)
    @@ ("Italian" :> <<"i", "t", "-", "I", "T">>)
    @@ ("Japanese" :> <<"j", "a", "-", "J", "P">>)
    @@ ("Korean" :> <<"k", "o", "-", "K", "R">>)
    @@ ("Norwegian" :> <<"n", "b", "-", "N", "O">>)
    @@ ("Dutch" :> <<"n", "l", "-", "N", "L">>)
    @@ ("Polish" :> <<"p", "l", "-", "P", "L">>)
    @@ ("Portuguese" :> <<"p", "t", "-", "B", "R">>)
    @@ ("Romanian" :> <<"r", "o", "-", "R", "O">>)
    @@ ("Russian" :> <<"r", "u", "-", "R", "U">>)
    @@ ("Swedish" :> <<"s", "v", "-", "S", "E">>)
    @@ ("Turkish" :> <<"t", "r", "-", "T", "R">>)

\* A faulty lookup: an unknown name falls back to English.
LookupDefaultsToEnglish(name) ==
    IF name \in DOMAIN LANGUAGE_TO_CODE
    THEN Some(LANGUAGE_TO_CODE[name])
    ELSE Some(LANGUAGE_TO_CODE["English"])

\* LANGUAGE_TO_CODE.get(name): the mapped code, or None.
LookupLanguage(name) ==
    IF name \in DOMAIN LANGUAGE_TO_CODE THEN Some(LANGUAGE_TO_CODE[name]) ELSE None

\* master_code.as_str().get(0..2): the first two bytes of the code (the codes
\* are ASCII), None when the code is shorter.
CodePrefix(code) == IF Len(code) >= 2 THEN Some(SubSeq(code, 1, 2)) ELSE None

\* generic_language_from_code: .get(0..2).unwrap().to_string(); it panics on a
\* code shorter than two bytes, which CodePanics tells.
CodePanics(code) == CodePrefix(code) = None

generic_language_from_code(master_code) == CodePrefix(master_code)[1]

(***************************************************************************)
(* Strings                                                                 *)
(***************************************************************************)
\* UTF-8 encoded length of one code point.
Utf8Width(cp) ==
    IF cp < 128 THEN 1 ELSE IF cp < 2048 THEN 2 ELSE IF cp < 65536 THEN 3 ELSE 4

\* String::len(): the length in bytes of the UTF-8 encoding.
RECURSIVE StrLen(_)
StrLen(s) == IF s = <<>> THEN 0 ELSE Utf8Width(Head(s)) + StrLen(Tail(s))

\* The number of characters of a string (s.chars().count()).
CharCount(s) == Len(s)

\* str::starts_with
StartsWith(s, prefix) ==
    /\ Len(s) >= Len(prefix)
    /\ SubSeq(s, 1, Len(prefix)) = prefix

RECURSIVE Repeat(_, _)
Repeat(x, n) == IF n = 0 THEN <<>> ELSE <<x>> \o Repeat(x, n - 1)

RECURSIVE Count(_, _)
Count(s, x) ==
    IF s = <<>> THEN 0 ELSE (IF Head(s) = x THEN 1 ELSE 0) + Count(Tail(s), x)


(***************************************************************************)
(* Inputs: the provider's voice catalog                                    *)
(*   a voice is [id, engines, lang, additional]: Voice::id(),              *)
(*   supported_engines, language_code() and additional_language_codes().   *)
(***************************************************************************)
EnUS == <<"e", "n", "-", "U", "S">>

EnGB == <<"e", "n", "-", "G", "B">>

EnIN == <<"e", "n", "-", "I", "N">>

HiIN == <<"h", "i", "-", "I", "N">>

Joanna ==
    [id |-> Some("Joanna"), engines |-> {"standard", "neural"},
     lang |-> Some(EnUS), additional |-> <<>>]

\* A bilingual voice: its two codes reduce to two keys.
Aditi ==
    [id |-> Some("Aditi"), engines |-> {"standard"},
     lang |-> Some(HiIN), additional |-> <<EnIN>>]

\* A voice with two codes of one language: both reduce to "en".
Amy ==
    [id |-> Some("Amy"), engines |-> {"standard"},
     lang |-> Some(EnGB), additional |-> <<EnUS>>]

\* A voice without the Standard engine.
Ruth ==
    [id |-> Some("Ruth"), engines |-> {"neural", "generative"},
     lang |-> Some(EnUS), additional |-> <<>>]

\* A voice the provider gives no id.
Anon ==
    [id |-> None, engines |-> {"standard"},
     lang |-> Some(EnUS), additional |-> <<>>]

\* A Standard voice the provider gives no language code.
Mute ==
    [id |-> Some("Mute"), engines |-> {"standard"},
     lang |-> None, additional |-> <<>>]

VoicePool == {Joanna, Aditi, Amy, Ruth, Anon, Mute}

RECURSIVE SeqsUpTo(_, _)
SeqsUpTo(S, n) ==
    IF n = 0 THEN {<<>>}
    ELSE LET shorter == SeqsUpTo(S, n - 1)
         IN shorter \cup {Append(s, x) : s \in shorter, x \in S}

Catalogs == SeqsUpTo(VoicePool, MaxVoices)

(***************************************************************************)
(* Voice inventory builder (main, src/src/main.rs:181-213)                 *)
(***************************************************************************)
\* A faulty filter: a voice with any engine at all is kept.
SupportsAnyEngine(voice) == voice.engines # {}

\* voice.supported_engines.unwrap_or_default().contains(&Engine::Standard)
SupportsStandard(voice) == "standard" \in voice.engines

\* voice_languages: the additional codes, then the main one.
VoiceLanguages(voice) == voice.additional \o <<voice.lang[1]>>

\* all_voices.entry(generic_language).or_insert_with(Vec::new).push(voice_id)
PushSpeaker(inv, key, voice_id) ==
    IF key \in DOMAIN inv
    THEN [inv EXCEPT ![key] = Append(@, voice_id)]
    ELSE inv @@ (key :> <<voice_id>>)

\* The inner loop over voice_languages, pushing the id when there is one.
RECURSIVE PushLanguages(_, _, _)
PushLanguages(inv, codes, id) ==
    IF codes = <<>> THEN inv
    ELSE PushLanguages(
             IF id # None
             THEN PushSpeaker(inv, generic_language_from_code(Head(codes)), id[1])
             ELSE inv,
             Tail(codes), id)

\* One iteration of the outer loop.
AddVoice(inv, voice) ==
    IF ~SupportsStandard(voice) THEN inv
    ELSE PushLanguages(inv, VoiceLanguages(voice), voice.id)

\* language_code().unwrap() or generic_language_from_code's unwrap panics.
VoicePanics(voice) ==
    /\ SupportsStandard(voice)
    /\ \/ voice.lang = None
       \/ \E i \in DOMAIN VoiceLanguages(voice) : CodePanics(VoiceLanguages(voice)[i])

BuildPanics(catalog) == \E i \in DOMAIN catalog : VoicePanics(catalog[i])

EmptyInventory == [k \in {} |-> <<>>]

RECURSIVE BuildFrom(_, _)
BuildFrom(inv, catalog) ==
    IF catalog = <<>> THEN inv
    ELSE BuildFrom(AddVoice(inv, Head(catalog)), Tail(catalog))

BuildInventory(catalog) == BuildFrom(EmptyInventory, catalog)


(***************************************************************************)
(* Rate limiter (RateLimitGuard, src/src/main.rs:55-69)                    *)
(*   Quota::per_hour(n) of the governor crate: a burst of n cells, one     *)
(*   cell replenished every hour/n, decided by the generic cell rate       *)
(*   algorithm on one "theoretical arrival time" per key; rocket_governor  *)
(*   keys the state by the client's address.                               *)
(***************************************************************************)
HOUR == 3600

\* Quota::replenish_1_per
ReplenishInterval == HOUR \div RATE_LIMIT_PER_HOUR

\* A faulty tolerance: one cell too many in a burst.
BurstToleranceWide == ReplenishInterval * RATE_LIMIT_PER_HOUR

\* The burst tolerance of the quota: max_burst - 1 further cells at once.
BurstTolerance == ReplenishInterval * (RATE_LIMIT_PER_HOUR - 1)

\* A faulty key: one limiter state for all clients.
SharedLimiterKey(client) == "0.0.0.0"

\* The key of the limiter state: the client's address.
LimiterKey(client) == client

\* The theoretical arrival time of a key, the present for a key not seen yet.
ArrivalTime(state, key, t0) == IF key \in DOMAIN state THEN state[key] ELSE t0

\* The decision on one cell at time t0.
GcraAllows(state, key, t0) ==
    LET tat == ArrivalTime(state, key, t0)
        earliest == IF tat > BurstTolerance THEN tat - BurstTolerance ELSE 0
    IN t0 >= earliest

\* The state after a cell was let through at time t0.
GcraUpdate(state, key, t0) ==
    LET next == Max(ArrivalTime(state, key, t0), t0) + ReplenishInterval
    IN IF key \in DOMAIN state
       THEN [state EXCEPT ![key] = next]
       ELSE state @@ (key :> next)

\* Cells of the key's burst that are in use at time t0.
CellsInUse(state, key, t0) ==
    (Max(ArrivalTime(state, key, t0), t0) - t0 + ReplenishInterval - 1)
        \div ReplenishInterval

(***************************************************************************)
(* Cross-origin policy (CORS::on_response, src/src/cors.rs:16-33)          *)
(*   headers: header name -> the sequence of its values                    *)
(***************************************************************************)
AllowOrigin == "Access-Control-Allow-Origin"

AllowMethods == "Access-Control-Allow-Methods"

AllowHeaders == "Access-Control-Allow-Headers"

NoHeaders == [h \in {AllowOrigin, AllowMethods, AllowHeaders} |-> <<>>]

ChromeExtensionPrefix == <<"chrome-extension", "://">>

\* A faulty header call (Response::adjoin_header): the value is added.
AdjoinHeader(headers, name, value) == [headers EXCEPT ![name] = Append(@, value)]

\* Response::set_header: the value replaces the header's values.
SetHeader(headers, name, value) == [headers EXCEPT ![name] = <<value>>]

on_response(request, response) ==
    LET h1 == SetHeader(response.headers, AllowOrigin, <<"*">>)
        origin == request.origin
        h2 == IF origin # None /\ StartsWith(origin[1], ChromeExtensionPrefix)
              THEN SetHeader(h1, AllowOrigin, origin[1])
              ELSE h1
        h3 == SetHeader(h2, AllowMethods, <<"GET, POST, OPTIONS">>)
        h4 == SetHeader(h3, AllowHeaders, <<"Content-Type, Charset, Accept">>)
    IN [response EXCEPT !.headers = h4]

(***************************************************************************)
(* Synthesis request handler (speak, src/src/main.rs:104-155)              *)
(***************************************************************************)
BoundMessage ==
    <<"IPA must be between ", MIN_IPA_LENGTH, " and ", MAX_IPA_LENGTH, " characters">>

UnsupportedMessage(language) == <<"Language ", language, " is unsupported">>

NoSpeakersMessage(language) == <<"No speakers available for language ", language>>

NoAvailableMessage == <<"No available speakers">>

SynthesisFailedMessage(e) == <<"Failed to synthesize speech: ", e>>

\* A faulty validation: only the upper bound is tested.
IpaTooLong(ipa) == StrLen(ipa) > MAX_IPA_LENGTH

\* The length validation of speak: data.ipa.len() is the length in bytes.
IpaLengthInvalid(ipa) ==
    LET ipa_length == StrLen(ipa)
    IN ipa_length < MIN_IPA_LENGTH \/ ipa_length > MAX_IPA_LENGTH

\* A faulty lookup: a language without speakers gets another language's.
GetAnySpeakers(inv, key) ==
    IF key \in DOMAIN inv THEN Some(inv[key])
    ELSE IF DOMAIN inv # {} THEN Some(inv[CHOOSE k \in DOMAIN inv : TRUE])
    ELSE None

\* polly.speakers.get(&generic_language)
GetSpeakers(inv, key) == IF key \in DOMAIN inv THEN Some(inv[key]) ELSE None

Failure(body) == [err |-> TRUE, body |-> body, speaker |-> None]

\* The outcomes of speak up to its synthesize_speech call: a 400 body, or
\* the speaker that speakers.choose(&mut rng) drew.
speak(data, inv) ==
    IF IpaLengthInvalid(data.ipa) THEN {Failure(BoundMessage)}
    ELSE LET language_code == LookupLanguage(data.language)
         IN IF language_code = None THEN {Failure(UnsupportedMessage(data.language))}
            ELSE LET speakers_ == GetSpeakers(inv, generic_language_from_code(language_code[1]))
                 IN IF speakers_ = None
                    THEN {Failure(NoSpeakersMessage(data.language))}
                    ELSE IF speakers_[1] = <<>>
                    THEN {Failure(NoAvailableMessage)}
                    ELSE {[err |-> FALSE, body |-> <<>>, speaker |-> Some(speakers_[1][i])] :
                              i \in DOMAIN speakers_[1]}


(***************************************************************************)
(* State                                                                   *)
(***************************************************************************)
VARIABLES
    phase,          \* main's position: "starting", "serving" or "failed"
    describeCalls,  \* describe_voices calls made so far
    voices,         \* the catalog describe_voices returned
    speakers,       \* Polly.speakers: generic key -> speaker ids
    now,            \* the clock
    advances,       \* times the clock advanced
    limiter,        \* the limiter's state: key -> theoretical arrival time
    inflight,       \* requests awaiting synthesize_speech: [req, speaker]
    resp,           \* the last response sent, an Option
    throttledAt,    \* client -> when its latest POST was throttled, if it was
    own,            \* client -> the arrival time its POSTs alone account for
    wstart,         \* the start of the observed interval, an Option
    wcount          \* client -> its POSTs admitted since wstart

vars ==
    <<phase, describeCalls, voices, speakers, now, advances, limiter, inflight,
      resp, throttledAt, own, wstart, wcount>>

Clients == {"10.0.0.1", "10.0.0.2"}

Init ==
    /\ phase = "starting"
    /\ describeCalls = 0
    /\ voices = <<>>
    /\ speakers = EmptyInventory
    /\ now = 0
    /\ advances = 0
    /\ limiter = [k \in {} |-> 0]
    /\ inflight = <<>>
    /\ resp = None
    /\ throttledAt = [c \in Clients |-> None]
    /\ own = [c \in {} |-> 0]
    /\ wstart = None
    /\ wcount = [c \in Clients |-> 0]

(***************************************************************************)
(* Startup (main, src/src/main.rs:170-231)                                 *)
(***************************************************************************)
\* describe_voices().send().await answers with a catalog; main builds the
\* inventory and launches, or panics on a voice it cannot index.
Startup(catalogs) ==
    /\ phase = "starting"
    /\ \E catalog \in catalogs :
        /\ voices' = catalog
        /\ IF BuildPanics(catalog)
           THEN phase' = "failed" /\ speakers' = speakers
           ELSE phase' = "serving" /\ speakers' = BuildInventory(catalog)
    /\ describeCalls' = describeCalls + 1
    /\ UNCHANGED <<now, advances, limiter, inflight, resp, throttledAt, own, wstart,
                   wcount>>

\* describe_voices fails: .expect(..) panics and the process ends.
StartupFails ==
    /\ phase = "starting"
    /\ phase' = "failed"
    /\ describeCalls' = describeCalls + 1
    /\ UNCHANGED <<voices, speakers, now, advances, limiter, inflight, resp,
                   throttledAt, own, wstart, wcount>>

\* A faulty launch: requests are served while main is still starting.
AcceptingEarly == phase \in {"starting", "serving"}

\* rocket::build()...launch(): requests are served once main got there.
Accepting == phase = "serving"

(***************************************************************************)
(* Requests                                                                *)
(***************************************************************************)
\* rested: the client's previous POST was throttled, an hour ago or longer.
Request(route, client, origin, ipa, language, rested) ==
    [route |-> route, client |-> client, origin |-> origin, ipa |-> ipa,
     language |-> language, rested |-> rested]

\* A response on its way out: every response passes the CORS fairing.
\* handled: the body of speak ran; synth: the speaker synthesis was called with;
\* spent: the client's own POSTs had used up its quota when this one came.
Respond(req, status, body, handled, synth, spent) ==
    Some(on_response(req,
        [req |-> req, status |-> status, body |-> body, handled |-> handled,
         synth |-> synth, spent |-> spent, headers |-> NoHeaders]))

\* POST /: the guard of the limiter, then speak up to its await.
Post(client, origin, ipa, language) ==
    /\ Accepting
    /\ LET rested == /\ throttledAt[client] # None
                     /\ now - throttledAt[client][1] >= HOUR
           req == Request("speak", client, origin, ipa, language, rested)
           key == LimiterKey(client)
           ok == GcraAllows(limiter, key, now)
           alone == GcraAllows(own, client, now)
       IN /\ throttledAt' = [throttledAt EXCEPT ![client] = IF ok THEN None ELSE Some(now)]
          /\ own' = IF alone THEN GcraUpdate(own, client, now) ELSE own
          /\ wcount' = [wcount EXCEPT ![client] = IF ok /\ wstart # None THEN @ + 1 ELSE @]
          /\ IF ~ok
             THEN /\ limiter' = limiter
                  /\ inflight' = inflight
                  /\ resp' = Respond(req, 429, <<"Too Many Requests">>, FALSE, None, ~alone)
             ELSE /\ limiter' = GcraUpdate(limiter, key, now)
                  /\ \E out \in speak(req, speakers) :
                        IF out.err
                        THEN /\ resp' = Respond(req, 400, out.body, TRUE, None, ~alone)
                             /\ inflight' = inflight
                        ELSE /\ Len(inflight) < MaxInflight
                             /\ inflight' = Append(inflight, [req |-> req, speaker |-> out.speaker])
                             /\ resp' = resp
    /\ UNCHANGED <<phase, describeCalls, voices, speakers, now, advances, wstart>>

Remove(s, i) == SubSeq(s, 1, i - 1) \o SubSeq(s, i + 1, Len(s))

\* polly.synthesize_speech(..).await returns: the audio stream, or an error.
SynthesisReturns(i, ok) ==
    /\ i \in DOMAIN inflight
    /\ resp' = IF ok
               THEN Respond(inflight[i].req, 200, <<"audio/ogg stream">>, TRUE,
                            inflight[i].speaker, FALSE)
               ELSE Respond(inflight[i].req, 400, SynthesisFailedMessage("service error"),
                            TRUE, inflight[i].speaker, FALSE)
    /\ inflight' = Remove(inflight, i)
    /\ UNCHANGED <<phase, describeCalls, voices, speakers, now, advances, limiter,
                   throttledAt, own, wstart, wcount>>

\* GET /
index(client, origin) ==
    /\ Accepting
    /\ resp' = Respond(Request("index", client, origin, <<>>, "", FALSE), 200,
                       <<"This is a ipa_server, running on Rocket (Rust). You probably meant to do a POST request">>,
                       FALSE, None, FALSE)
    /\ UNCHANGED <<phase, describeCalls, voices, speakers, now, advances, limiter, inflight,
                   throttledAt, own, wstart, wcount>>

\* OPTIONS /<_..>
all_options(client, origin) ==
    /\ Accepting
    /\ resp' = Respond(Request("all_options", client, origin, <<>>, "", FALSE), 200, <<>>,
                       FALSE, None, FALSE)
    /\ UNCHANGED <<phase, describeCalls, voices, speakers, now, advances, limiter, inflight,
                   throttledAt, own, wstart, wcount>>

\* Time passes.
Advance(d) ==
    /\ advances < MaxAdvances
    /\ now' = now + d
    /\ advances' = advances + 1
    /\ UNCHANGED <<phase, describeCalls, voices, speakers, limiter, inflight, resp,
                   throttledAt, own, wstart, wcount>>

\* An observer starts counting the admitted requests.
StartWindow ==
    /\ wstart = None
    /\ wstart' = Some(now)
    /\ UNCHANGED <<phase, describeCalls, voices, speakers, now, advances, limiter, inflight,
                   resp, throttledAt, own, wcount>>

(***************************************************************************)
(* Inputs                                                                  *)
(***************************************************************************)
NoOrigin == None

ChromeOrigin == Some(<<"chrome-extension", "://", "abc">>)

EvilOrigin == Some(<<"https", "://", "evil.example">>)

\* An origin that holds the trusted prefix, but not at its start.
NestedOrigin == Some(<<"https", "://", "chrome-extension", "://", "abc">>)

\* An origin shorter than the trusted prefix.
ShortOrigin == Some(<<"chrome-extension">>)

Origins == {NoOrigin, ChromeOrigin, EvilOrigin, NestedOrigin, ShortOrigin}

\* k (1 byte), ae and esh (2 bytes), barred small capital i (3 bytes).
IpaAlphabet == {107, 230, 643, 7547}

Kaet == <<107, 230, 116>>

\* Every run of one character, up to MaxIpaChars characters, and "kaet".
IpaStrings == {Repeat(ch, n) : ch \in IpaAlphabet, n \in 0..MaxIpaChars} \cup {Kaet}

IpaSample == {<<>>, Kaet}

Languages == {"English", "Hindi and Urdu", "Arabic", "Klingon"}

\* The client's own POSTs have fewer than MaxCells cells of its quota in use.
FewCells(client) == CellsInUse(own, client, now) < MaxCells

\* No request awaits its synthesis call.
Sequential == inflight = <<>>

(***************************************************************************)
(* Spec: startup on every catalog, concurrent requests                     *)
(***************************************************************************)
Next ==
    \/ Startup(Catalogs)
    \/ StartupFails
    \/ \E ipa \in IpaSample, language \in Languages :
          FewCells("10.0.0.1") /\ Post("10.0.0.1", NoOrigin, ipa, language)
    \/ \E i \in 1..MaxInflight, ok \in BOOLEAN : SynthesisReturns(i, ok)
    \/ index("10.0.0.1", NoOrigin)
    \/ all_options("10.0.0.1", NoOrigin)

Spec == Init /\ [][Next]_vars

(***************************************************************************)
(* SpecLen: IPA strings of every length, one request after the other, on   *)
(* an empty inventory and on an inventory of one voice                     *)
(***************************************************************************)
NextLen ==
    \/ Startup({<<>>, <<Joanna>>})
    \/ StartupFails
    \/ \E ipa \in IpaStrings, language \in {"English", "Klingon"} :
          Sequential /\ FewCells("10.0.0.1") /\ Post("10.0.0.1", NoOrigin, ipa, language)
    \/ \E ok \in BOOLEAN : SynthesisReturns(1, ok)

SpecLen == Init /\ [][NextLen]_vars

(***************************************************************************)
(* SpecRate: one client against its quota while time passes                *)
(***************************************************************************)
Durations == {ReplenishInterval \div 2, ReplenishInterval, HOUR}

NextRate ==
    \/ Startup({<<Joanna>>})
    \/ StartupFails
    \/ Sequential /\ Post("10.0.0.1", NoOrigin, Kaet, "English")
    \/ SynthesisReturns(1, TRUE)
    \/ \E d \in Durations : Advance(d)
    \/ StartWindow

SpecRate == Init /\ [][NextRate]_vars

(***************************************************************************)
(* SpecClients: one client against its quota, another beside it, while     *)
(* hours pass                                                              *)
(***************************************************************************)
NextClients ==
    \/ Startup({<<Joanna>>})
    \/ StartupFails
    \/ \E client \in Clients :
          /\ Sequential
          /\ client = "10.0.0.1" \/ FewCells(client)
          /\ Post(client, NoOrigin, Kaet, "English")
    \/ SynthesisReturns(1, TRUE)
    \/ \E d \in {ReplenishInterval, HOUR} : Advance(d)

SpecClients == Init /\ [][NextClients]_vars

(***************************************************************************)
(* SpecCors: every route and outcome under every Origin header             *)
(***************************************************************************)
NextCors ==
    \/ Startup({<<Joanna>>})
    \/ StartupFails
    \/ \E origin \in Origins, ipa \in IpaSample, language \in {"English", "Klingon"} :
          Sequential /\ Post("10.0.0.1", origin, ipa, language)
    \/ \E ok \in BOOLEAN : SynthesisReturns(1, ok)
    \/ \E origin \in Origins : index("10.0.0.1", origin)
    \/ \E origin \in Origins : all_options("10.0.0.1", origin)

SpecCors == Init /\ [][NextCors]_vars


(***************************************************************************)
(* Properties                                                              *)
(***************************************************************************)
\* The last response answers a POST / that the limiter admitted.
Admitted == resp # None /\ resp[1].req.route = "speak" /\ resp[1].status # 429

\* The length of the IPA string, in characters, is outside [1, 50].
OutOfRange(ipa) == CharCount(ipa) < MIN_IPA_LENGTH \/ CharCount(ipa) > MAX_IPA_LENGTH

\* C1: an admitted POST whose ipa is empty or longer than 50 characters is
\* answered 400 with the message stating the 1-to-50 bound, whatever its
\* language, and synthesis is not called for it: it never awaits synthesis.
C1_OutOfRangeRejected ==
    /\ Admitted /\ OutOfRange(resp[1].req.ipa) =>
          /\ resp[1].status = 400
          /\ resp[1].body = BoundMessage
          /\ resp[1].synth = None
    /\ \A i \in DOMAIN inflight : ~OutOfRange(inflight[i].req.ipa)

\* A 51-character ipa in an unsupported language was answered with the bound.
C1_Witness ==
    /\ Admitted
    /\ CharCount(resp[1].req.ipa) > MAX_IPA_LENGTH
    /\ resp[1].req.language = "Klingon"
    /\ resp[1].body = BoundMessage

\* C2: an admitted POST whose ipa has between 1 and 50 characters is not
\* answered with the bound message, whichever characters it is made of.
C2_CharsInRangePass ==
    Admitted /\ ~OutOfRange(resp[1].req.ipa) => resp[1].body # BoundMessage

\* C3: an admitted POST whose ipa passes the length validation and whose language
\* is no key of LANGUAGE_TO_CODE is answered 400 with the message naming the
\* language, and synthesis is not called for it.
C3_UnsupportedLanguageRejected ==
    /\ ( /\ Admitted
         /\ ~IpaLengthInvalid(resp[1].req.ipa)
         /\ resp[1].req.language \notin DOMAIN LANGUAGE_TO_CODE ) =>
          /\ resp[1].status = 400
          /\ resp[1].body = <<"Language ", resp[1].req.language, " is unsupported">>
          /\ resp[1].synth = None
    /\ \A i \in DOMAIN inflight : inflight[i].req.language \in DOMAIN LANGUAGE_TO_CODE

\* "kaet" in Klingon was answered with the message naming Klingon.
C3_Witness ==
    /\ Admitted
    /\ resp[1].req.ipa = Kaet
    /\ resp[1].req.language = "Klingon"
    /\ resp[1].body = <<"Language ", "Klingon", " is unsupported">>

\* The generic key of a language of the table.
KeyOf(language) == SubSeq(LANGUAGE_TO_CODE[language], 1, 2)

\* The inventory has no speaker for the language.
NoSpeakerFor(language) ==
    \/ KeyOf(language) \notin DOMAIN speakers
    \/ speakers[KeyOf(language)] = <<>>

\* C4: an admitted POST with a valid ipa and a language of the table is
\* answered 400 without a synthesis call when the inventory has no bucket, or
\* an empty one, under the language's generic key; otherwise the speaker that
\* synthesis is called with is a member of that bucket.
C4_SpeakerFromBucket ==
    /\ ( /\ Admitted
         /\ ~IpaLengthInvalid(resp[1].req.ipa)
         /\ resp[1].req.language \in DOMAIN LANGUAGE_TO_CODE
         /\ NoSpeakerFor(resp[1].req.language) ) =>
          /\ resp[1].status = 400
          /\ resp[1].synth = None
    /\ Admitted /\ resp[1].synth # None =>
          /\ ~NoSpeakerFor(resp[1].req.language)
          /\ resp[1].synth[1] \in Range(speakers[KeyOf(resp[1].req.language)])
    /\ \A i \in DOMAIN inflight :
          /\ inflight[i].req.language \in DOMAIN LANGUAGE_TO_CODE
          /\ ~NoSpeakerFor(inflight[i].req.language)
          /\ inflight[i].speaker[1] \in Range(speakers[KeyOf(inflight[i].req.language)])

\* Arabic was asked of an inventory that has other languages only.
C4_Witness ==
    /\ Admitted
    /\ resp[1].req.language = "Arabic"
    /\ resp[1].status = 400
    /\ resp[1].body = <<"No speakers available for language ", "Arabic">>
    /\ DOMAIN speakers # {}

\* C5: after startup no bucket of the inventory holds the id of a catalog
\* voice whose engines do not include Standard.
C5_OnlyStandardVoices ==
    phase = "serving" =>
        \A k \in DOMAIN speakers : \A i \in DOMAIN speakers[k] :
            \A j \in DOMAIN voices :
                voices[j].id = Some(speakers[k][i]) => "standard" \in voices[j].engines

\* The catalog held a voice without Standard, and the inventory is not empty.
C5_Witness ==
    /\ phase = "serving"
    /\ \E j \in DOMAIN voices : "standard" \notin voices[j].engines
    /\ DOMAIN speakers # {}

\* The generic keys of the codes a voice is registered under.
KeysOf(voice) == {SubSeq(code, 1, 2) : code \in Range(voice.additional \o voice.lang)}

\* C6: after startup a Standard voice (with an id no other catalog entry has)
\* is in the bucket of each generic key of its codes exactly once, also when
\* two of its codes reduce to the same key.
C6_OncePerKey ==
    phase = "serving" =>
        \A j \in DOMAIN voices :
            ( /\ "standard" \in voices[j].engines
              /\ voices[j].id # None
              /\ \A h \in DOMAIN voices : h # j => voices[h].id # voices[j].id ) =>
                \A k \in KeysOf(voices[j]) :
                    /\ k \in DOMAIN speakers
                    /\ Count(speakers[k], voices[j].id[1]) = 1

TrustedOrigin(origin) ==
    /\ origin # None
    /\ Len(origin[1]) >= 2
    /\ origin[1][1] = "chrome-extension"
    /\ origin[1][2] = "://"

\* C9: every response carries the two fixed Access-Control headers and one
\* Access-Control-Allow-Origin value: the request's Origin when that starts
\* with chrome-extension://, "*" otherwise.
C9_CorsOnEveryResponse ==
    resp # None =>
        /\ resp[1].headers[AllowMethods] = << <<"GET, POST, OPTIONS">> >>
        /\ resp[1].headers[AllowHeaders] = << <<"Content-Type, Charset, Accept">> >>
        /\ resp[1].headers[AllowOrigin] =
              IF TrustedOrigin(resp[1].req.origin)
              THEN << resp[1].req.origin[1] >>
              ELSE << <<"*">> >>

\* A throttled request of a Chrome extension got its origin echoed.
C9_Witness ==
    /\ resp # None
    /\ resp[1].status = 429
    /\ resp[1].req.origin = ChromeOrigin
    /\ resp[1].headers[AllowOrigin] = << <<"chrome-extension", "://", "abc">> >>

\* Nothing was served and nothing is in service.
NothingServed == resp = None /\ inflight = <<>> /\ DOMAIN limiter = {}

====
